---------------------------- MODULE Spec2Model ----------------------------
(***************************************************************************)
(* A model of Brakebein/nest-neo4j:                                        *)
(*   - createDriver (src/src/index.ts): the retry interval racing the      *)
(*     one-shot timeout for one connection handle;                         *)
(*   - Neo4jService (src/src/neo4j.service.ts): sessions, single-statement *)
(*     transactions, multi-statement transactions;                         *)
(*   - Neo4jService.extractRecords / convertValues: the normalisation of   *)
(*     driver values into plain values;                                    *)
(*   - Neo4jService.getConfig and onApplicationShutdown;                   *)
(*   - Neo4jService.removeEmptyArrays;                                     *)
(*   - Neo4jErrorFilter.catch (src/src/index.ts).                          *)
(* Each part has a specification of its own (SpecBoot, SpecSvc, SpecNorm,  *)
(* SpecLife, SpecClean, SpecFilter) over the same variables; the variables *)
(* of the other parts stay at their initial values.                        *)
(***************************************************************************)
EXTENDS Integers, Naturals, Sequences, FiniteSets, TLC

VARIABLES
    \* ---- createDriver ----
    config,      \* the Neo4jConfig given to createDriver (the field the claims read)
    now,         \* time in ms of the latest timer event since createDriver was called
    timerOn,     \* the subscription of timer(0, 5000).pipe(takeUntil(driver$)) is live
    nextTick,    \* the time in ms at which the interval fires next
    timeoutOn,   \* the timeout operator's timer is armed
    deadlineAt,  \* the time in ms at which the timeout operator's timer fires
    attempts,    \* one record per invocation of the subscriber, in order of start;
                 \* closed: driver.close() was called on the driver it built;
                 \* verifiedAt: the time of the latest timer event when
                 \* verifyConnectivity resolved (-1: it has not)
    reason,      \* the closure variable `reason`: <<>> (undefined) or <<i>>, attempt i's error
    subject,     \* driver$: "open" or "stopped" (completed)
    outcome,     \* the promise createDriver returned: "pending", "resolved", "rejected"
    handle,      \* the attempt whose driver the promise resolved with (0: none)
    error,       \* what the promise rejected with: <<>> (undefined) or <<i>>; <<0>> before
    settledAt,   \* the time in ms at which the promise settled (-1: not yet)
    emitted,     \* number of driver$.next calls delivered to an observer
    logs,        \* number of logger calls per level
    \* ---- extractRecords ----
    normIn,      \* the argument of extractRecords
    normOut,     \* what extractRecords returned ([t |-> "none"] before the call)
    \* ---- Neo4jService ----
    svcConfig,   \* this.config
    call,        \* per caller: the operation in progress and where it stands
    sessions,    \* the sessions the driver handed out, in order of acquisition
    tx,          \* per caller: the explicit transaction of multipleStatementsRaw
    db,          \* the effects the database retains: <<caller, statement number>>
    \* ---- Neo4jService: configuration and shutdown ----
    heap,          \* the option bags by reference (config.options is a reference)
    supplied,      \* the configuration as it was at construction, by value
    copies,        \* the objects getConfig has returned, in order
    shutdownCalls, \* number of invocations of onApplicationShutdown
    closeCalls,    \* number of invocations of driver.close
    \* ---- removeEmptyArrays ----
    cleanIn,     \* the arguments of removeEmptyArrays: data, arrayKey, checkKey
    cleanOut,    \* what removeEmptyArrays returned or raised ([t |-> "none"] before)
    \* ---- Neo4jErrorFilter ----
    filterIn,    \* exception.message, the argument of Neo4jErrorFilter.catch
    filterOut    \* the response catch sent, or what it raised ([t |-> "none"] before)

bootVars == <<config, now, timerOn, nextTick, timeoutOn, deadlineAt, attempts,
              reason, subject, outcome, handle, error, settledAt, emitted, logs>>

normVars == <<normIn, normOut>>

svcVars == <<svcConfig, call, sessions, tx, db>>

lifeVars == <<heap, supplied, copies, shutdownCalls, closeCalls>>

cleanVars == <<cleanIn, cleanOut>>

filterVars == <<filterIn, filterOut>>

vars == <<bootVars, normVars, svcVars, lifeVars, cleanVars, filterVars>>

-----------------------------------------------------------------------------
(* createDriver                                                            *)

\* timer(0, 5000): the period of the retry interval, in ms.
RetryPeriod == 5000

\* timeout({ each: 60000, ... }): the time the timeout operator waits, in ms.
TimeoutEach == 60000

\* The interface's documented default of verifyConnectionTimeout, in ms.
DefaultVerifyConnectionTimeout == 60000

\* The subscriber is invoked at most this many times in a behaviour.
MaxAttempts == 14

\* At most this many verifications that will resolve are pending when the
\* interval fires.
MaxInFlight == 2

\* config.verifyConnectionTimeout: <<>> when the optional field is unset.
TimeoutChoices == {<<>>, <<10000>>, <<60000>>, <<120000>>}

\* The deadline the configuration asks for.
ConfiguredDeadline(cfg) ==
    IF cfg.verifyConnectionTimeout = <<>>
    THEN DefaultVerifyConnectionTimeout
    ELSE cfg.verifyConnectionTimeout[1]

Pending == {i \in 1..Len(attempts) : attempts[i].status = "pending"}

\* The verifications that resolve at no time of the behaviour: the server has
\* stopped answering, and every later verification hangs as well.
Hung == {i \in 1..Len(attempts) : attempts[i].status = "hung"}

\* The interval fires: the subscriber builds a driver and starts
\* verifyConnectivity, whether or not an earlier verification is pending.
\* The timeout's timer was armed before the interval's periodic timer, so at
\* an equal due time the timeout runs first. status: whether the server will
\* answer this verification ("pending") or not ("hung").
Tick(status) ==
    /\ timerOn
    /\ status = "pending" => Hung = {}
    /\ timeoutOn => nextTick < deadlineAt
    /\ Len(attempts) < MaxAttempts
    /\ status = "pending" => Cardinality(Pending) < MaxInFlight
    /\ now' = nextTick
    /\ nextTick' = nextTick + RetryPeriod
    /\ attempts' = Append(attempts,
                          [startedAt |-> nextTick, status |-> status,
                           verifiedAt |-> -1, closed |-> FALSE])
    /\ UNCHANGED <<config, timerOn, timeoutOn, deadlineAt, reason, subject,
                   outcome, handle, error, settledAt, emitted, logs>>
    /\ UNCHANGED <<normVars, svcVars, lifeVars, cleanVars, filterVars>>

\* driver$.next(driver); driver$.complete() with lastValueFrom's chain taken
\* to be subscribed to driver$ for ever.
EmitAndComplete_StillSubscribed(i) ==
    /\ subject' = "stopped"
    /\ emitted' = emitted + 1
    /\ timerOn' = FALSE
    /\ timeoutOn' = FALSE
    /\ outcome' = "resolved"
    /\ handle' = i
    /\ settledAt' = now

\* driver$.next(driver); driver$.complete() on a Subject that is still open.
\* The notifier of takeUntil is always subscribed and ends the interval; the
\* timeout operator, while subscribed, hands the value to lastValueFrom and
\* disarms its timer at the completion.
EmitAndComplete(i) ==
    /\ subject' = "stopped"
    /\ emitted' = emitted + 1
    /\ timerOn' = FALSE
    /\ timeoutOn' = FALSE
    /\ IF timeoutOn
       THEN /\ outcome' = "resolved"
            /\ handle' = i
            /\ settledAt' = now
       ELSE UNCHANGED <<outcome, handle, settledAt>>

\* verifyConnectivity of attempt i resolves.
VerifyOk(i) ==
    /\ i \in Pending
    /\ attempts' = [attempts EXCEPT ![i].status = "ok", ![i].verifiedAt = now]
    /\ logs' = [logs EXCEPT !.log = @ + 1]
    /\ IF subject = "open"
       THEN EmitAndComplete(i)
       ELSE UNCHANGED <<subject, emitted, timerOn, timeoutOn, outcome, handle, settledAt>>
    /\ UNCHANGED <<config, now, nextTick, deadlineAt, reason, error>>
    /\ UNCHANGED <<normVars, svcVars, lifeVars, cleanVars, filterVars>>

\* verifyConnectivity of attempt i rejects.
VerifyFail(i) ==
    /\ i \in Pending
    /\ attempts' = [attempts EXCEPT ![i].status = "failed"]
    /\ logs' = [logs EXCEPT !.warn = @ + 1]
    /\ reason' = <<i>>
    /\ UNCHANGED <<config, now, timerOn, nextTick, timeoutOn, deadlineAt, subject,
                   outcome, handle, error, settledAt, emitted>>
    /\ UNCHANGED <<normVars, svcVars, lifeVars, cleanVars, filterVars>>

\* The timeout operator's timer fires: it unsubscribes from driver$, runs
\* `with` (two error logs) and the promise rejects with `reason`. The
\* interval's subscription is not touched.
Timeout ==
    /\ timeoutOn
    /\ timerOn => deadlineAt <= nextTick
    /\ now' = deadlineAt
    /\ timeoutOn' = FALSE
    /\ logs' = [logs EXCEPT !.error = @ + 2]
    /\ outcome' = "rejected"
    /\ error' = reason
    /\ settledAt' = deadlineAt
    /\ UNCHANGED <<config, timerOn, nextTick, deadlineAt, attempts, reason,
                   subject, handle, emitted>>
    /\ UNCHANGED <<normVars, svcVars, lifeVars, cleanVars, filterVars>>

NextBoot ==
    \/ \E status \in {"pending", "hung"} : Tick(status)
    \/ \E i \in 1..MaxAttempts : VerifyOk(i)
    \/ \E i \in 1..MaxAttempts : VerifyFail(i)
    \/ Timeout

-----------------------------------------------------------------------------
(* Values                                                                  *)
(* A JavaScript or driver value is a record tagged by t. Strings are       *)
(* sequences of one-character strings, so that they can be built and read  *)
(* digit by digit. An integral number is a sign and a magnitude of four    *)
(* 16-bit limbs, least significant first; a driver Integer holds the two   *)
(* signed 32-bit halves the driver keeps.                                  *)

Null == [t |-> "null"]
Undefined == [t |-> "undefined"]
Bool(b) == [t |-> "boolean", b |-> b]
Str(cs) == [t |-> "string", chars |-> cs]
Num(neg, mag) == [t |-> "number", nan |-> FALSE, neg |-> neg, mag |-> mag]
NaN == [t |-> "number", nan |-> TRUE, neg |-> FALSE, mag |-> <<0, 0, 0, 0>>]
SmallNum(n) == Num(FALSE, <<n, 0, 0, 0>>)
Int64(h, l) == [t |-> "Integer", high |-> h, low |-> l]
Arr(items) == [t |-> "array", items |-> items]
Obj(fields) == [t |-> "object", fields |-> fields]
EmptyArray == Arr(<<>>)
Temporal(kind, text) == [t |-> kind, text |-> text]
Point(srid, x, y, z) == [t |-> "Point", srid |-> srid, x |-> x, y |-> y, z |-> z]
Node(identity, labels, properties) ==
    [t |-> "Node", identity |-> identity, labels |-> labels, properties |-> properties]
Record(keys, values) == [t |-> "Record", keys |-> keys, values |-> values]
TypeError == [t |-> "TypeError"]

Limb == 2^16

DigitChar == <<"0", "1", "2", "3", "4", "5", "6", "7", "8", "9">>

\* The unsigned 16-bit halves of a signed 32-bit integer.
Lo16(x) == x % Limb
Hi16(x) == (x \div Limb) % Limb

\* The 64 bits of a driver Integer, as limbs.
Bits64(i) == <<Lo16(i.low), Hi16(i.low), Lo16(i.high), Hi16(i.high)>>

RECURSIVE AddCarry(_, _, _)
\* The limbs m, from limb k on, plus the carry c (modulo 2^64).
AddCarry(m, k, c) ==
    IF k > Len(m) \/ c = 0 THEN m
    ELSE AddCarry([m EXCEPT ![k] = (m[k] + c) % Limb], k + 1, (m[k] + c) \div Limb)

\* Two's complement negation of 64 bits.
Negate64(m) == AddCarry([k \in 1..4 |-> (Limb - 1) - m[k]], 1, 1)

IsZeroMag(m) == \A k \in 1..Len(m) : m[k] = 0

\* Integer.isNegative and the magnitude of the value.
IsNegative(i) == i.high < 0
Magnitude(i) == IF IsNegative(i) THEN Negate64(Bits64(i)) ELSE Bits64(i)

\* Integer.compare(a, b) <= 0: signed high halves, then unsigned low halves.
LessThanOrEqual(a, b) ==
    \/ a.high < b.high
    \/ /\ a.high = b.high
       /\ \/ Hi16(a.low) < Hi16(b.low)
          \/ Hi16(a.low) = Hi16(b.low) /\ Lo16(a.low) <= Lo16(b.low)

\* Integer.MAX_SAFE_VALUE = 2^53 - 1 and Integer.MIN_SAFE_VALUE = -(2^53 - 1).
MAX_SAFE_VALUE == Int64(2^21 - 1, -1)
MIN_SAFE_VALUE == Int64(-(2^21), 1)

\* inSafeRange deciding on the high half alone: -2^53 passes as safe.
InSafeRange_HighOnly(i) ==
    MIN_SAFE_VALUE.high <= i.high /\ i.high <= MAX_SAFE_VALUE.high

\* neo4j.integer.inSafeRange(value)
InSafeRange(i) ==
    LessThanOrEqual(MIN_SAFE_VALUE, i) /\ LessThanOrEqual(i, MAX_SAFE_VALUE)

RECURSIVE BitLength(_)
BitLength(n) == IF n = 0 THEN 0 ELSE 1 + BitLength(n \div 2)

\* The nearest double of a 64-bit magnitude: 53 significant bits, ties to even.
Round53(m) ==
    IF m[4] < 2^5 THEN m
    ELSE LET e == BitLength(m[4]) - 5
             q == m[1] \div (2^e)
             r == m[1] % (2^e)
             up == IF r > 2^(e - 1) \/ (r = 2^(e - 1) /\ q % 2 = 1) THEN 1 ELSE 0
             low == (q + up) * (2^e)
         IN  AddCarry([m EXCEPT ![1] = low % Limb], 2, low \div Limb)

\* Integer.toNumber(): high * 2^32 + (low >>> 0), computed in doubles.
ToNumber(i) ==
    LET m == Round53(Magnitude(i))
    IN  Num(IsNegative(i) /\ ~IsZeroMag(m), m)

RECURSIVE DivLimbs(_, _, _, _)
\* <<quotient limbs, remainder>> of the limbs m by the small divisor d,
\* limb k downwards, r the remainder carried in.
DivLimbs(m, d, k, r) ==
    IF k = 0 THEN <<m, r>>
    ELSE LET cur == r * Limb + m[k]
         IN  DivLimbs([m EXCEPT ![k] = cur \div d], d, k - 1, cur % d)

RECURSIVE DecimalChars(_)
\* The decimal digits of a magnitude, most significant first.
DecimalChars(m) ==
    LET qr == DivLimbs(m, 10, Len(m), 0)
    IN  IF IsZeroMag(qr[1]) THEN <<DigitChar[qr[2] + 1]>>
        ELSE Append(DecimalChars(qr[1]), DigitChar[qr[2] + 1])

SignChars(neg) == IF neg THEN <<"-">> ELSE <<>>

\* Integer.toString(): the decimal representation.
IntegerToString(i) == Str(SignChars(IsNegative(i)) \o DecimalChars(Magnitude(i)))

\* formatAsFloat of the driver's spatial types, for the numbers of the model
\* (all integral): the digits followed by ".0".
FormatAsFloat(v) ==
    IF v.t = "Integer" THEN IntegerToString(v).chars
    ELSE SignChars(v.neg) \o DecimalChars(v.mag) \o <<".", "0">>

\* Point.toString()
PointToString(p) ==
    Str(<<"P", "o", "i", "n", "t", "{", "s", "r", "i", "d", "=">> \o FormatAsFloat(p.srid)
        \o <<",", " ", "x", "=">> \o FormatAsFloat(p.x)
        \o <<",", " ", "y", "=">> \o FormatAsFloat(p.y)
        \o (IF p.z.t = "number" /\ ~p.z.nan
            THEN <<",", " ", "z", "=">> \o FormatAsFloat(p.z)
            ELSE <<>>)
        \o <<"}">>)

TemporalKinds == {"Date", "DateTime", "LocalTime", "LocalDateTime", "Time", "Duration"}

\* The temporal test with isDuration(v) left out.
IsTemporal_WithoutDuration(v) == v.t \in TemporalKinds \ {"Duration"}

\* isDate(v) || isDateTime(v) || isLocalTime(v) || isLocalDateTime(v) || isTime(v) || isDuration(v)
IsTemporal(v) == v.t \in TemporalKinds
IsInt(v) == v.t = "Integer"
IsPoint(v) == v.t = "Point"

\* value.toString() of a temporal value or a point.
ToStringOf(v) == IF IsPoint(v) THEN PointToString(v) ELSE Str(v.text)

\* value.srid.toNumber(): a TypeError when srid is not a driver Integer.
SridToNumber(srid) == IF IsInt(srid) THEN ToNumber(srid) ELSE TypeError

Srid4326 == 4326
Srid4979 == 4979

RECURSIVE ConvertValues(_)
\* Neo4jService.convertValues. Of the values of the model, those tagged
\* "object" are the ones `typeof value === 'object'` is left with.
ConvertValues(value) ==
    IF value = Null THEN value
    ELSE IF IsInt(value)
    THEN IF InSafeRange(value) THEN ToNumber(value) ELSE IntegerToString(value)
    ELSE IF IsTemporal(value) \/ IsPoint(value) THEN ToStringOf(value)
    ELSE IF IsPoint(value)
    THEN LET srid == SridToNumber(value.srid)
         IN  IF srid = TypeError THEN TypeError
             ELSE IF srid = SmallNum(Srid4326)
             THEN Obj([k \in {"longitude", "latitude"} |->
                        IF k = "longitude" THEN value.y ELSE value.x])
             ELSE IF srid = SmallNum(Srid4979)
             THEN Obj([k \in {"longitude", "latitude", "height"} |->
                        IF k = "longitude" THEN value.y
                        ELSE IF k = "latitude" THEN value.x ELSE value.z])
             ELSE ConvertValues(Obj([k \in {"x", "y", "z"} |->
                        IF k = "x" THEN value.x
                        ELSE IF k = "y" THEN value.y ELSE value.z]))
    ELSE LET v == IF value.t = "Node" THEN Obj(value.properties) ELSE value
         IN  IF v.t = "array"
             THEN Arr([n \in 1..Len(v.items) |-> ConvertValues(v.items[n])])
             ELSE IF v.t = "object"
             THEN Obj([k \in DOMAIN v.fields |-> ConvertValues(v.fields[k])])
             ELSE v

\* `data == null` in place of `!data`.
Falsy_NullOrUndefined(data) == data.t \in {"null", "undefined"}

\* !data
Falsy(data) ==
    \/ data.t \in {"null", "undefined"}
    \/ data.t = "boolean" /\ ~data.b
    \/ data.t = "number" /\ (data.nan \/ IsZeroMag(data.mag))
    \/ data.t = "string" /\ data.chars = <<>>

\* record.get(key)
RecordGet(record, key) ==
    record.values[CHOOSE n \in 1..Len(record.keys) : record.keys[n] = key]

\* The object extractRecords builds of one record; reading `keys` of a value
\* that has none is a TypeError.
ExtractRecord(record) ==
    IF record.t # "Record" THEN TypeError
    ELSE Obj([key \in {record.keys[n] : n \in 1..Len(record.keys)} |->
                ConvertValues(RecordGet(record, key))])

\* Neo4jService.extractRecords
ExtractRecords(data) ==
    IF Falsy(data) THEN EmptyArray
    ELSE IF data.t # "array" THEN data
    ELSE LET objs == [n \in 1..Len(data.items) |-> ExtractRecord(data.items[n])]
         IN  IF \E n \in 1..Len(objs) : objs[n] = TypeError THEN TypeError
             ELSE Arr(objs)


-----------------------------------------------------------------------------
(* extractRecords applied to an argument                                    *)

\* The nesting depth of the generated arguments.
NestDepth == 2

IntegerSamples ==
    { Int64(0, 0), Int64(0, 1), Int64(0, 42), Int64(-1, -1), Int64(0, -1), Int64(1, 0),
      MAX_SAFE_VALUE, Int64(2^21, 0), Int64(2^21, 1),
      MIN_SAFE_VALUE, Int64(-(2^21), 0), Int64(-(2^21) - 1, -1),
      Int64(2147483647, -1), Int64(-2147483647 - 1, 0) }

\* Points as the driver builds them: srid a driver Integer, or a number when
\* the driver runs with disableLosslessIntegers; z undefined in two dimensions.
PointSamples ==
    { Point(Int64(0, 4326), SmallNum(13), SmallNum(52), Undefined),
      Point(SmallNum(4326), SmallNum(13), SmallNum(52), Undefined),
      Point(Int64(0, 4979), SmallNum(13), SmallNum(52), SmallNum(34)),
      Point(SmallNum(4979), SmallNum(13), SmallNum(52), SmallNum(34)),
      Point(Int64(0, 7203), SmallNum(1), SmallNum(2), Undefined),
      Point(Int64(0, 9157), SmallNum(1), SmallNum(2), SmallNum(3)) }

PlainSamples ==
    { Null, Undefined, Bool(TRUE), Bool(FALSE), SmallNum(0), SmallNum(5), NaN,
      Str(<<>>), Str(<<"A", "l", "e", "x">>) }

TemporalSamples ==
    { Temporal("Date", <<"2", "0", "2", "4", "-", "0", "1", "-", "3", "1">>),
      Temporal("Duration", <<"P", "1", "D">>) }

Leaves == IntegerSamples \cup PointSamples \cup PlainSamples \cup TemporalSamples

\* The values that hold v one level down.
Wrap(v) ==
    { Arr(<<v>>), Arr(<<Int64(0, 1), v>>), Obj([a |-> v]),
      Node(Int64(0, 1), <<"Person">>, [p |-> v]) }

RECURSIVE Nested(_)
Nested(d) ==
    IF d = 0 THEN Leaves
    ELSE Leaves \cup UNION {Wrap(v) : v \in Nested(d - 1)}

\* The nesting depth of the deeply nested arguments.
DeepDepth == 5

\* The driver values put at the bottom of the deeply nested arguments.
DeepLeaves ==
    { Null, Int64(2^21, 1), Point(Int64(0, 4326), SmallNum(13), SmallNum(52), Undefined),
      Temporal("Duration", <<"P", "1", "D">>) }

\* An array, a plain object and a node that hold v one level down.
DeepWrap(v) ==
    { Arr(<<v>>), Obj([a |-> v]), Node(Int64(0, 1), <<"Person">>, [p |-> v]) }

RECURSIVE DeepNested(_)
\* The values that hold a value of DeepLeaves exactly d levels down.
DeepNested(d) ==
    IF d = 0 THEN DeepLeaves
    ELSE UNION {DeepWrap(v) : v \in DeepNested(d - 1)}

\* The arguments: lists of one or two records over the nested values, and
\* values that are no lists.
NormInputs ==
    {Arr(<<Record(<<"n">>, <<v>>)>>) : v \in Nested(NestDepth)}
    \cup {Arr(<<Record(<<"n">>, <<v>>)>>) : v \in DeepNested(DeepDepth)}
    \cup {Arr(<<Record(<<"n", "m">>, <<v, Int64(0, 42)>>), Record(<<"n", "m">>, <<Null, v>>)>>) :
            v \in Leaves}
    \cup {EmptyArray, Obj([a |-> Int64(0, 1)])}
    \cup PlainSamples

NoValue == [t |-> "none"]

-----------------------------------------------------------------------------
(* Neo4jService: readRaw, read, writeRaw, write, multipleStatementsRaw,    *)
(* multipleStatements. A caller is one invocation; its awaits are the      *)
(* points where the driver answers and where other callers may run.        *)

\* The longest statement list given to multipleStatementsRaw.
MaxStatements == 2

\* Two callers run concurrently. Callers share the database only, and each
\* statement's effect is its caller's own.
Calls == {1, 2}

SingleOps == {"readRaw", "read", "writeRaw", "write"}
ReadOps == {"readRaw", "read"}
MultiOps == {"multipleStatementsRaw", "multipleStatements"}
ExtractingOps == {"read", "write", "multipleStatements"}

\* The errors the driver raises.
Errors == {"ServiceUnavailable", "ConstraintValidationFailed"}

\* The optional `database` argument: <<>> when it is not given.
DatabaseArgs == {<<>>, <<"movies">>}

\* The QueryResult the driver returns for the k-th statement of a caller.
StatementResult(k) ==
    IF k % 2 = 1
    THEN [records |-> Arr(<<Record(<<"count">>, <<Int64(0, 7)>>)>>)]
    ELSE [records |-> EmptyArray]

NoSession == [mode |-> "none", database |-> <<>>, open |-> FALSE, closeCalls |-> 0]
NoTx == [state |-> "none", pending |-> {}, commits |-> 0, rollbacks |-> 0]
IdleCall ==
    [op |-> "none", pc |-> "idle", n |-> 0, results |-> <<>>, raised |-> <<>>,
     commitRaised |-> <<>>, caught |-> <<>>, ret |-> [kind |-> "none"]]

\* The service after construction, no caller active.
InitSvc ==
    /\ svcConfig = [database |-> <<"neo4j">>]
    /\ call = [c \in {1, 2} |-> IdleCall]
    /\ sessions = [c \in {1, 2} |-> NoSession]
    /\ tx = [c \in {1, 2} |-> NoTx]
    /\ db = {}
    \* the other parts are at rest
    /\ config = [verifyConnectionTimeout |-> <<>>]
    /\ now = 0
    /\ timerOn = FALSE
    /\ nextTick = 0
    /\ timeoutOn = FALSE
    /\ deadlineAt = TimeoutEach
    /\ attempts = <<>>
    /\ reason = <<>>
    /\ subject = "open"
    /\ outcome = "pending"
    /\ handle = 0
    /\ error = <<0>>
    /\ settledAt = -1
    /\ emitted = 0
    /\ logs = [log |-> 0, warn |-> 0, error |-> 0]
    /\ normIn = Null
    /\ normOut = Null
    /\ heap = [r \in {1} |-> [maxConnectionPoolSize |-> 100]]
    /\ supplied = [database |-> <<"neo4j">>, options |-> <<>>]
    /\ copies = <<>>
    /\ shutdownCalls = 0
    /\ closeCalls = 0
    /\ cleanIn = [data |-> EmptyArray, arrayKey |-> "friends", checkKey |-> "name"]
    /\ cleanOut = Null
    /\ filterIn = <<>>
    /\ filterOut = Null

\* getReadSession(database): database || this.config.database
GetReadSession(database) ==
    [mode |-> "READ",
     database |-> IF database # <<>> THEN database ELSE svcConfig.database,
     open |-> TRUE, closeCalls |-> 0]

\* getWriteSession(database)
GetWriteSession(database) ==
    [mode |-> "WRITE",
     database |-> IF database # <<>> THEN database ELSE svcConfig.database,
     open |-> TRUE, closeCalls |-> 0]

\* `finally { await session.close() }` is entered: close is called.
CallClose(c) ==
    sessions' = [sessions EXCEPT ![c].closeCalls = @ + 1]

\* readRaw / writeRaw up to their await: the session is acquired and
\* executeRead / executeWrite is called. read and write start the same way.
StartSingle(c, op, database) ==
    /\ call[c].pc = "idle"
    /\ op \in SingleOps
    /\ sessions' = [sessions EXCEPT ![c] =
                      IF op \in ReadOps THEN GetReadSession(database)
                      ELSE GetWriteSession(database)]
    /\ call' = [call EXCEPT ![c].op = op, ![c].pc = "exec"]
    /\ UNCHANGED <<svcConfig, tx, db>>
    /\ UNCHANGED <<bootVars, normVars, lifeVars, cleanVars, filterVars>>

\* executeRead / executeWrite resolves: the driver has committed the managed
\* transaction; the result is kept for the return and `finally` is entered.
ExecOk(c) ==
    /\ call[c].pc = "exec"
    /\ call' = [call EXCEPT ![c].results = <<StatementResult(1)>>, ![c].pc = "closing"]
    /\ db' = IF call[c].op \in ReadOps THEN db ELSE db \cup {<<c, 1>>}
    /\ CallClose(c)
    /\ UNCHANGED <<svcConfig, tx>>
    /\ UNCHANGED <<bootVars, normVars, lifeVars, cleanVars, filterVars>>

\* ExecFail without the `finally`: the error is rethrown and the session is
\* never closed.
ExecFail_NoFinally(c, e) ==
    /\ call[c].pc = "exec"
    /\ call' = [call EXCEPT ![c].raised = <<e>>, ![c].caught = <<e>>, ![c].pc = "done",
                            ![c].ret = [kind |-> "throw", err |-> e]]
    /\ UNCHANGED <<svcConfig, sessions, tx, db>>
    /\ UNCHANGED <<bootVars, normVars, lifeVars, cleanVars, filterVars>>

\* executeRead / executeWrite rejects with e: `catch (e) { throw e }`, then
\* `finally` is entered.
ExecFail(c, e) ==
    /\ call[c].pc = "exec"
    /\ call' = [call EXCEPT ![c].raised = <<e>>, ![c].caught = <<e>>, ![c].pc = "closing"]
    /\ CallClose(c)
    /\ UNCHANGED <<svcConfig, tx, db>>
    /\ UNCHANGED <<bootVars, normVars, lifeVars, cleanVars, filterVars>>

\* multipleStatementsRaw up to its first await: the session is acquired, the
\* transaction is begun and the first statement is run, or commit is called
\* when the list is empty. multipleStatements starts the same way.
StartMulti(c, op, n) ==
    /\ call[c].pc = "idle"
    /\ op \in MultiOps
    /\ sessions' = [sessions EXCEPT ![c] = GetWriteSession(<<>>)]
    /\ tx' = [tx EXCEPT ![c].state = "open"]
    /\ call' = [call EXCEPT ![c].op = op, ![c].n = n,
                            ![c].pc = IF n = 0 THEN "commit" ELSE "run"]
    /\ UNCHANGED <<svcConfig, db>>
    /\ UNCHANGED <<bootVars, normVars, lifeVars, cleanVars, filterVars>>

\* txc.run of the next statement resolves: its result is pushed and the
\* statement's effect is pending in the transaction.
RunOk(c) ==
    /\ call[c].pc = "run"
    /\ LET k == Len(call[c].results) + 1
       IN  /\ call' = [call EXCEPT ![c].results = Append(@, StatementResult(k)),
                                   ![c].pc = IF k = call[c].n THEN "commit" ELSE "run"]
           /\ tx' = [tx EXCEPT ![c].pending = @ \cup {k}]
    /\ UNCHANGED <<svcConfig, sessions, db>>
    /\ UNCHANGED <<bootVars, normVars, lifeVars, cleanVars, filterVars>>

\* RunFail with a `catch` that rethrows without rolling back.
RunFail_NoRollback(c, e) ==
    /\ call[c].pc = "run"
    /\ call' = [call EXCEPT ![c].raised = <<e>>, ![c].caught = <<e>>, ![c].pc = "closing"]
    /\ tx' = [tx EXCEPT ![c].state = "failed", ![c].pending = {}]
    /\ CallClose(c)
    /\ UNCHANGED <<svcConfig, db>>
    /\ UNCHANGED <<bootVars, normVars, lifeVars, cleanVars, filterVars>>

\* txc.run of the next statement rejects with e: the driver marks the
\* transaction failed; `catch` is entered and rollback is called.
RunFail(c, e) ==
    /\ call[c].pc = "run"
    /\ call' = [call EXCEPT ![c].raised = <<e>>, ![c].caught = <<e>>, ![c].pc = "rollback"]
    /\ tx' = [tx EXCEPT ![c].state = "failed", ![c].pending = {}]
    /\ UNCHANGED <<svcConfig, sessions, db>>
    /\ UNCHANGED <<bootVars, normVars, lifeVars, cleanVars, filterVars>>

\* txc.commit() resolves: the pending effects are retained; `return results`
\* enters `finally`.
CommitOk(c) ==
    /\ call[c].pc = "commit"
    /\ tx' = [tx EXCEPT ![c].state = "committed", ![c].commits = @ + 1, ![c].pending = {}]
    /\ db' = db \cup {<<c, k>> : k \in tx[c].pending}
    /\ call' = [call EXCEPT ![c].pc = "closing"]
    /\ CallClose(c)
    /\ UNCHANGED svcConfig
    /\ UNCHANGED <<bootVars, normVars, lifeVars, cleanVars, filterVars>>

\* txc.commit() rejects with e: nothing is retained; `catch` is entered and
\* rollback is called.
CommitFail(c, e) ==
    /\ call[c].pc = "commit"
    /\ tx' = [tx EXCEPT ![c].state = "failed", ![c].commits = @ + 1, ![c].pending = {}]
    /\ call' = [call EXCEPT ![c].commitRaised = <<e>>, ![c].caught = <<e>>,
                            ![c].pc = "rollback"]
    /\ UNCHANGED <<svcConfig, sessions, db>>
    /\ UNCHANGED <<bootVars, normVars, lifeVars, cleanVars, filterVars>>

\* RollbackDone with a `catch` that throws an error of its own in place of e.
RollbackDone_OwnError(c) ==
    /\ call[c].pc = "rollback"
    /\ tx' = [tx EXCEPT ![c].state = "rolledback", ![c].rollbacks = @ + 1, ![c].pending = {}]
    /\ call' = [call EXCEPT ![c].pc = "closing", ![c].caught = <<"TransactionFailed">>]
    /\ CallClose(c)
    /\ UNCHANGED <<svcConfig, db>>
    /\ UNCHANGED <<bootVars, normVars, lifeVars, cleanVars, filterVars>>

\* txc.rollback() resolves (on a failed transaction the driver has nothing
\* left to do): `throw e` enters `finally`.
RollbackDone(c) ==
    /\ call[c].pc = "rollback"
    /\ tx' = [tx EXCEPT ![c].state = "rolledback", ![c].rollbacks = @ + 1, ![c].pending = {}]
    /\ call' = [call EXCEPT ![c].pc = "closing"]
    /\ CallClose(c)
    /\ UNCHANGED <<svcConfig, db>>
    /\ UNCHANGED <<bootVars, normVars, lifeVars, cleanVars, filterVars>>

\* What the operation returns of the raw results: the Raw methods the
\* driver's results, the others extractRecords of each result's records.
ReturnValue(op, results) ==
    IF op \in SingleOps
    THEN IF op \in ExtractingOps THEN ExtractRecords(results[1].records) ELSE results[1]
    ELSE IF op \in ExtractingOps
         THEN [k \in 1..Len(results) |-> ExtractRecords(results[k].records)]
         ELSE results

\* Settle with a `catch` that swallows the error: the caller gets `undefined`.
Settle_Swallowed(c) ==
    IF call[c].caught # <<>>
    THEN [kind |-> "value", value |-> Undefined]
    ELSE [kind |-> "value", value |-> ReturnValue(call[c].op, call[c].results)]

\* What the caller observes once `finally` is through: the error caught, or
\* the value returned.
Settle(c) ==
    IF call[c].caught # <<>>
    THEN [kind |-> "throw", err |-> call[c].caught[1]]
    ELSE [kind |-> "value", value |-> ReturnValue(call[c].op, call[c].results)]

\* session.close() resolves (a transaction still open is rolled back by the
\* driver) and the caller gets the outcome.
CloseDone(c) ==
    /\ call[c].pc = "closing"
    /\ sessions' = [sessions EXCEPT ![c].open = FALSE]
    /\ tx' = [tx EXCEPT ![c].state = IF @ = "open" THEN "rolledback" ELSE @,
                        ![c].pending = {}]
    /\ call' = [call EXCEPT ![c].pc = "done", ![c].ret = Settle(c)]
    /\ UNCHANGED <<svcConfig, db>>
    /\ UNCHANGED <<bootVars, normVars, lifeVars, cleanVars, filterVars>>

\* The shutdown hook is invoked at most this many times.
MaxShutdowns == 2

\* onApplicationShutdown with the call of close left out.
OnApplicationShutdown_NoClose ==
    /\ shutdownCalls < MaxShutdowns
    /\ shutdownCalls' = shutdownCalls + 1
    /\ UNCHANGED <<heap, supplied, copies, closeCalls>>
    /\ UNCHANGED <<bootVars, normVars, svcVars, cleanVars, filterVars>>

\* onApplicationShutdown: return this.driver.close()
OnApplicationShutdown ==
    /\ shutdownCalls < MaxShutdowns
    /\ shutdownCalls' = shutdownCalls + 1
    /\ closeCalls' = closeCalls + 1
    /\ UNCHANGED <<heap, supplied, copies>>
    /\ UNCHANGED <<bootVars, normVars, svcVars, cleanVars, filterVars>>

NextSvc ==
    \/ OnApplicationShutdown
    \/ \E c \in Calls, op \in SingleOps, d \in DatabaseArgs : StartSingle(c, op, d)
    \/ \E c \in Calls : ExecOk(c)
    \/ \E c \in Calls, e \in Errors : ExecFail(c, e)
    \/ \E c \in Calls, op \in MultiOps, n \in 0..MaxStatements : StartMulti(c, op, n)
    \/ \E c \in Calls : RunOk(c)
    \/ \E c \in Calls, e \in Errors : RunFail(c, e)
    \/ \E c \in Calls : CommitOk(c)
    \/ \E c \in Calls, e \in Errors : CommitFail(c, e)
    \/ \E c \in Calls : RollbackDone(c)
    \/ \E c \in Calls : CloseDone(c)

-----------------------------------------------------------------------------
(* Neo4jService: the stored configuration                                  *)
(* An object is a record of its own fields; config.options holds a         *)
(* reference into heap (0: the optional field is unset).                   *)

\* getConfig is called at most this many times.
MaxCopies == 2

\* The values a caller writes into what getConfig returned.
PoolSizes == {100, 1}

\* A configuration object by value: its fields, the option bag followed.
ConfigValue(cfg) ==
    [database |-> cfg.database,
     options |-> IF cfg.options = 0 THEN <<>> ELSE <<heap[cfg.options]>>]

\* The service after construction, the configuration being any of four.
InitLife ==
    /\ svcConfig \in [database : {<<>>, <<"neo4j">>}, options : {0, 1}]
    /\ heap = [r \in {1} |-> [maxConnectionPoolSize |-> 100]]
    /\ supplied = [database |-> svcConfig.database,
                   options |-> IF svcConfig.options = 0 THEN <<>> ELSE <<heap[1]>>]
    /\ copies = <<>>
    /\ shutdownCalls = 0
    /\ closeCalls = 0
    /\ cleanIn = [data |-> EmptyArray, arrayKey |-> "friends", checkKey |-> "name"]
    /\ cleanOut = Null
    /\ filterIn = <<>>
    /\ filterOut = Null
    /\ call = [c \in {1, 2} |-> IdleCall]
    /\ sessions = [c \in {1, 2} |-> NoSession]
    /\ tx = [c \in {1, 2} |-> NoTx]
    /\ db = {}
    \* the other parts are at rest
    /\ config = [verifyConnectionTimeout |-> <<>>]
    /\ now = 0
    /\ timerOn = FALSE
    /\ nextTick = 0
    /\ timeoutOn = FALSE
    /\ deadlineAt = TimeoutEach
    /\ attempts = <<>>
    /\ reason = <<>>
    /\ subject = "open"
    /\ outcome = "pending"
    /\ handle = 0
    /\ error = <<0>>
    /\ settledAt = -1
    /\ emitted = 0
    /\ logs = [log |-> 0, warn |-> 0, error |-> 0]
    /\ normIn = Null
    /\ normOut = Null

\* getConfig: return { ...this.config }, a new object with the own fields of
\* this.config, each holding what the field of this.config holds.
GetConfig ==
    /\ Len(copies) < MaxCopies
    /\ copies' = Append(copies, [database |-> svcConfig.database,
                                 options |-> svcConfig.options])
    /\ UNCHANGED <<heap, supplied, shutdownCalls, closeCalls>>
    /\ UNCHANGED <<bootVars, normVars, svcVars, cleanVars, filterVars>>

\* The caller assigns a field of the object getConfig returned:
\* `cfg.database = d`.
AssignDatabase(k, d) ==
    /\ k \in 1..Len(copies)
    /\ copies' = [copies EXCEPT ![k].database = d]
    /\ UNCHANGED <<heap, supplied, shutdownCalls, closeCalls>>
    /\ UNCHANGED <<bootVars, normVars, svcVars, cleanVars, filterVars>>

\* `delete cfg.options` on the object getConfig returned.
DeleteOptions(k) ==
    /\ k \in 1..Len(copies)
    /\ copies' = [copies EXCEPT ![k].options = 0]
    /\ UNCHANGED <<heap, supplied, shutdownCalls, closeCalls>>
    /\ UNCHANGED <<bootVars, normVars, svcVars, cleanVars, filterVars>>

\* The caller assigns inside the option bag of the object getConfig
\* returned: `cfg.options.maxConnectionPoolSize = n`.
AssignOption(k, n) ==
    /\ k \in 1..Len(copies)
    /\ copies[k].options # 0
    /\ heap' = [heap EXCEPT ![copies[k].options].maxConnectionPoolSize = n]
    /\ UNCHANGED <<supplied, copies, shutdownCalls, closeCalls>>
    /\ UNCHANGED <<bootVars, normVars, svcVars, cleanVars, filterVars>>

\* A caller acquires a session of its own: getReadSession(database) or
\* getWriteSession(database).
Acquire(c, mode, database) ==
    /\ sessions[c] = NoSession
    /\ sessions' = [sessions EXCEPT ![c] = IF mode = "READ"
                                           THEN GetReadSession(database)
                                           ELSE GetWriteSession(database)]
    /\ UNCHANGED <<svcConfig, call, tx, db>>
    /\ UNCHANGED <<bootVars, normVars, lifeVars, cleanVars, filterVars>>

NextLife ==
    \/ GetConfig
    \/ \E k \in 1..MaxCopies, d \in DatabaseArgs : AssignDatabase(k, d)
    \/ \E k \in 1..MaxCopies : DeleteOptions(k)
    \/ \E k \in 1..MaxCopies, n \in PoolSizes : AssignOption(k, n)
    \/ \E c \in Calls, mode \in {"READ", "WRITE"}, d \in DatabaseArgs :
          Acquire(c, mode, d)

SpecLife == InitLife /\ [][NextLife]_vars

-----------------------------------------------------------------------------
(* extractRecords as one call                                              *)

InitNorm ==
    /\ normIn \in NormInputs
    /\ normOut = NoValue
    \* the other parts are at rest
    /\ config = [verifyConnectionTimeout |-> <<>>]
    /\ now = 0
    /\ timerOn = FALSE
    /\ nextTick = 0
    /\ timeoutOn = FALSE
    /\ deadlineAt = TimeoutEach
    /\ attempts = <<>>
    /\ reason = <<>>
    /\ subject = "open"
    /\ outcome = "pending"
    /\ handle = 0
    /\ error = <<0>>
    /\ settledAt = -1
    /\ emitted = 0
    /\ logs = [log |-> 0, warn |-> 0, error |-> 0]
    /\ svcConfig = [database |-> <<"neo4j">>]
    /\ call = [c \in {1, 2} |-> IdleCall]
    /\ sessions = [c \in {1, 2} |-> NoSession]
    /\ tx = [c \in {1, 2} |-> NoTx]
    /\ db = {}
    /\ heap = [r \in {1} |-> [maxConnectionPoolSize |-> 100]]
    /\ supplied = [database |-> <<"neo4j">>, options |-> <<>>]
    /\ copies = <<>>
    /\ shutdownCalls = 0
    /\ closeCalls = 0
    /\ cleanIn = [data |-> EmptyArray, arrayKey |-> "friends", checkKey |-> "name"]
    /\ cleanOut = Null
    /\ filterIn = <<>>
    /\ filterOut = Null

Extract ==
    /\ normOut = NoValue
    /\ normOut' = ExtractRecords(normIn)
    /\ UNCHANGED normIn
    /\ UNCHANGED <<bootVars, svcVars, lifeVars, cleanVars, filterVars>>

-----------------------------------------------------------------------------
(* Neo4jService.removeEmptyArrays                                          *)

\* value[key] for a property name key: reading a property of null or
\* undefined is a TypeError, a property a value has not is undefined.
GetProperty(value, key) ==
    IF value.t \in {"null", "undefined"} THEN TypeError
    ELSE IF value.t = "object" /\ key \in DOMAIN value.fields THEN value.fields[key]
    ELSE Undefined

\* array[0]
FirstElement(array) == IF array.items = <<>> THEN Undefined ELSE array.items[1]

\* The test of the collapse with `== null` in place of `=== null`.
Collapses_LooseEquality(record, arrayKey, checkKey) ==
    LET a == GetProperty(record, arrayKey)
    IN  /\ ~Falsy(a)
        /\ a.t = "array"
        /\ ~Falsy(FirstElement(a))
        /\ GetProperty(FirstElement(a), checkKey) \in {Null, Undefined}

\* data[i][arrayKey] && Array.isArray(data[i][arrayKey]) && data[i][arrayKey][0],
\* then data[i][arrayKey][0][checkKey] === null
Collapses(record, arrayKey, checkKey) ==
    LET a == GetProperty(record, arrayKey)
    IN  /\ ~Falsy(a)
        /\ a.t = "array"
        /\ ~Falsy(FirstElement(a))
        /\ GetProperty(FirstElement(a), checkKey) = Null

\* One turn of the loop with the inner loop over the keys left out.
VisitRecord_NoRecursion(record, arrayKey, checkKey) ==
    IF record.t \in {"null", "undefined"} THEN TypeError
    ELSE IF Collapses(record, arrayKey, checkKey)
    THEN Obj([record.fields EXCEPT ![arrayKey] = EmptyArray])
    ELSE record

RECURSIVE RemoveEmptyArrays(_, _, _)
RECURSIVE VisitRecord(_, _, _)

\* One turn of the loop, on data[i]: the collapse of data[i][arrayKey], then
\* the call on every own property of data[i] that holds an array (the own
\* properties of an array are its elements). The value is data[i] as the
\* turn leaves it, or TypeError when the turn raises.
VisitRecord(record, arrayKey, checkKey) ==
    IF record.t \in {"null", "undefined"} THEN TypeError
    ELSE LET r == IF Collapses(record, arrayKey, checkKey)
                  THEN Obj([record.fields EXCEPT ![arrayKey] = EmptyArray])
                  ELSE record
         IN  IF r.t = "object"
             THEN LET fs == [k \in DOMAIN r.fields |->
                               IF r.fields[k].t = "array"
                               THEN RemoveEmptyArrays(r.fields[k], arrayKey, checkKey)
                               ELSE r.fields[k]]
                  IN  IF \E k \in DOMAIN fs : fs[k] = TypeError THEN TypeError
                      ELSE Obj(fs)
             ELSE IF r.t = "array"
             THEN LET is == [n \in 1..Len(r.items) |->
                               IF r.items[n].t = "array"
                               THEN RemoveEmptyArrays(r.items[n], arrayKey, checkKey)
                               ELSE r.items[n]]
                  IN  IF \E n \in 1..Len(is) : is[n] = TypeError THEN TypeError
                      ELSE Arr(is)
             ELSE r

\* Neo4jService.removeEmptyArrays: data as the loop leaves it, which is what
\* is returned, or TypeError when a turn raises.
RemoveEmptyArrays(data, arrayKey, checkKey) ==
    LET visited == [i \in 1..Len(data.items) |->
                      VisitRecord(data.items[i], arrayKey, checkKey)]
    IN  IF \E i \in 1..Len(visited) : visited[i] = TypeError THEN TypeError
        ELSE Arr(visited)

\* The nesting depth of the generated records.
CleanDepth == 2

Bob == Str(<<"B", "o", "b">>)

\* The values at the bottom of the generated records.
CleanLeaves ==
    { Null, SmallNum(5), Bob, Obj([name |-> Null, address |-> Null]),
      Obj([name |-> Bob]), Obj([address |-> Null]) }

\* The values that hold v one level down: in an array under `friends`, first
\* or second, in an array under another key, in an object-valued field, in
\* an array that is itself the record, and as the value of `friends`.
CleanWrap(v) ==
    { Obj([friends |-> Arr(<<v>>)]),
      Obj([friends |-> Arr(<<Obj([name |-> Bob]), v>>)]),
      Obj([items |-> Arr(<<v>>)]),
      Obj([person |-> v]),
      Arr(<<v>>),
      Obj([friends |-> v]) }

RECURSIVE CleanNested(_)
CleanNested(d) ==
    IF d = 0 THEN CleanLeaves
    ELSE CleanLeaves \cup UNION {CleanWrap(v) : v \in CleanNested(d - 1)}

\* The lists given as data: of one record, of two records, empty.
CleanData ==
    {Arr(<<r>>) : r \in CleanNested(CleanDepth)}
    \cup {Arr(<<r, q>>) : r \in UNION {CleanWrap(v) : v \in CleanLeaves},
                          q \in {Obj([friends |-> Arr(<<Obj([name |-> Null])>>)]),
                                 Obj([friends |-> Arr(<<Obj([name |-> Bob])>>)])}}
    \cup {EmptyArray}

InitClean ==
    /\ cleanIn \in [data : CleanData, arrayKey : {"friends", "items"}, checkKey : {"name"}]
    /\ cleanOut = NoValue
    \* the other parts are at rest
    /\ filterIn = <<>>
    /\ filterOut = Null
    /\ config = [verifyConnectionTimeout |-> <<>>]
    /\ now = 0
    /\ timerOn = FALSE
    /\ nextTick = 0
    /\ timeoutOn = FALSE
    /\ deadlineAt = TimeoutEach
    /\ attempts = <<>>
    /\ reason = <<>>
    /\ subject = "open"
    /\ outcome = "pending"
    /\ handle = 0
    /\ error = <<0>>
    /\ settledAt = -1
    /\ emitted = 0
    /\ logs = [log |-> 0, warn |-> 0, error |-> 0]
    /\ normIn = Null
    /\ normOut = Null
    /\ svcConfig = [database |-> <<"neo4j">>]
    /\ call = [c \in {1, 2} |-> IdleCall]
    /\ sessions = [c \in {1, 2} |-> NoSession]
    /\ tx = [c \in {1, 2} |-> NoTx]
    /\ db = {}
    /\ heap = [r \in {1} |-> [maxConnectionPoolSize |-> 100]]
    /\ supplied = [database |-> <<"neo4j">>, options |-> <<>>]
    /\ copies = <<>>
    /\ shutdownCalls = 0
    /\ closeCalls = 0

\* removeEmptyArrays(data, arrayKey, checkKey) as one call
Clean ==
    /\ cleanOut = NoValue
    /\ cleanOut' = RemoveEmptyArrays(cleanIn.data, cleanIn.arrayKey, cleanIn.checkKey)
    /\ UNCHANGED cleanIn
    /\ UNCHANGED <<bootVars, normVars, svcVars, lifeVars, filterVars>>

NextClean == Clean

SpecClean == InitClean /\ [][NextClean]_vars

-----------------------------------------------------------------------------
(* Neo4jErrorFilter                                                        *)

\* HttpStatus.BAD_REQUEST, HttpStatus.INTERNAL_SERVER_ERROR
BAD_REQUEST == 400
INTERNAL_SERVER_ERROR == 500

\* The character ` (U+0060), which a string of TLA+ cannot hold.
Backtick == "U+0060"

\* 'already exists with'
AlreadyExistsWith ==
    <<"a", "l", "r", "e", "a", "d", "y", " ", "e", "x", "i", "s", "t", "s",
      " ", "w", "i", "t", "h">>

\* 'must have the property'
MustHaveTheProperty ==
    <<"m", "u", "s", "t", " ", "h", "a", "v", "e", " ", "t", "h", "e", " ",
      "p", "r", "o", "p", "e", "r", "t", "y">>

\* ' already taken'
AlreadyTaken ==
    <<" ", "a", "l", "r", "e", "a", "d", "y", " ", "t", "a", "k", "e", "n">>

\* ' should not be empty'
ShouldNotBeEmpty ==
    <<" ", "s", "h", "o", "u", "l", "d", " ", "n", "o", "t", " ", "b", "e",
      " ", "e", "m", "p", "t", "y">>

\* The characters [a-z0-9] matches under the flag i.
IdentifierChars ==
    {"a", "b", "c", "d", "e", "f", "g", "h", "i", "j", "k", "l", "m", "n",
     "o", "p", "q", "r", "s", "t", "u", "v", "w", "x", "y", "z", "A", "B",
     "C", "D", "E", "F", "G", "H", "I", "J", "K", "L", "M", "N", "O", "P",
     "Q", "R", "S", "T", "U", "V", "W", "X", "Y", "Z", "0", "1", "2", "3",
     "4", "5", "6", "7", "8", "9"}

\* message.includes(part)
Includes(message, part) ==
    \E p \in 1..(Len(message) - Len(part) + 1) :
        SubSeq(message, p, p + Len(part) - 1) = part

RECURSIVE RunEnd(_, _)
\* [a-z0-9]+ from position p on: the position after the longest run.
RunEnd(message, p) ==
    IF p <= Len(message) /\ message[p] \in IdentifierChars
    THEN RunEnd(message, p + 1)
    ELSE p

RECURSIVE MatchIdentifiers(_, _)
\* message.match(/`([a-z0-9]+)`/gi) from position p on: the matches from
\* left to right, backticks included; no match at all is the empty sequence
\* here (null in the code).
MatchIdentifiers(message, p) ==
    IF p > Len(message) THEN <<>>
    ELSE IF message[p] = Backtick
    THEN LET e == RunEnd(message, p + 1)
         IN  IF e > p + 1 /\ e <= Len(message) /\ message[e] = Backtick
             THEN <<SubSeq(message, p, e)>> \o MatchIdentifiers(message, e + 1)
             ELSE MatchIdentifiers(message, p + 1)
    ELSE MatchIdentifiers(message, p + 1)

\* text.replace(/`/g, '')
StripBackticks(text) == SelectSeq(text, LAMBDA c : c # Backtick)

\* response.status(statusCode).json({ statusCode, message, error })
Response(statusCode, message, errorText) ==
    [t |-> "response", statusCode |-> statusCode, message |-> message,
     error |-> errorText]

\* `${matches[1].replace(/`/g, '')}<suffix>`: matches[1] is the second
\* match; reading it of null, or calling replace of undefined, is a TypeError.
SecondIdentifier(matches) ==
    IF Len(matches) < 2 THEN TypeError ELSE Str(StripBackticks(matches[2]))

\* Neo4jErrorFilter.catch: the response it sends, or TypeError when it raises.
Catch(message) ==
    IF Includes(message, AlreadyExistsWith)
    THEN LET id == SecondIdentifier(MatchIdentifiers(message, 1))
         IN  IF id = TypeError THEN TypeError
             ELSE Response(BAD_REQUEST, <<id.chars \o AlreadyTaken>>, "Bad Request")
    ELSE IF Includes(message, MustHaveTheProperty)
    THEN LET id == SecondIdentifier(MatchIdentifiers(message, 1))
         IN  IF id = TypeError THEN TypeError
             ELSE Response(BAD_REQUEST, <<id.chars \o ShouldNotBeEmpty>>, "Bad Request")
    ELSE Response(INTERNAL_SERVER_ERROR, <<>>, "Internal Server Error")

\* Labels and property names of the database.
Labels ==
    { <<"U", "s", "e", "r">>,
      <<"T", "e", "s", "t">>,
      <<"P", "e", "r", "s", "o", "n">>,
      <<"M", "y", "_", "L", "a", "b", "e", "l">>,
      <<"U", "2">> }

PropertyNames ==
    { <<"e", "m", "a", "i", "l">>,
      <<"m", "u", "s", "t", "E", "x", "i", "s", "t">>,
      <<"f", "i", "r", "s", "t", "_", "n", "a", "m", "e">>,
      <<"i", "d">>,
      <<"z", "i", "p", "-", "c", "o", "d", "e">>,
      <<"n", "a", "m", "e">> }

\* Node(1) already exists with label `<label>` and property `<name>` = 'x'
UniquenessMessage(label, name) ==
    <<"N", "o", "d", "e", "(", "1", ")", " ", "a", "l", "r", "e", "a", "d",
      "y", " ", "e", "x", "i", "s", "t", "s", " ", "w", "i", "t", "h", " ",
      "l", "a", "b", "e", "l", " ", Backtick>>
    \o label \o
    <<Backtick, " ", "a", "n", "d", " ", "p", "r", "o", "p", "e", "r", "t", "y",
      " ", Backtick>>
    \o name \o
    <<Backtick, " ", "=", " ", "'", "x", "'">>

\* Node(1) with label `<label>` must have the property `<name>`
ExistenceMessage(label, name) ==
    <<"N", "o", "d", "e", "(", "1", ")", " ", "w", "i", "t", "h", " ", "l",
      "a", "b", "e", "l", " ", Backtick>>
    \o label \o
    <<Backtick, " ", "m", "u", "s", "t", " ", "h", "a", "v", "e", " ", "t", "h",
      "e", " ", "p", "r", "o", "p", "e", "r", "t", "y", " ", Backtick>>
    \o name \o <<Backtick>>

\* The messages of the errors the filter is given.
Messages ==
    {UniquenessMessage(l, n) : l \in Labels, n \in PropertyNames}
    \cup {ExistenceMessage(l, n) : l \in Labels, n \in PropertyNames}
    \cup { <<"U", "n", "a", "b", "l", "e", " ", "t", "o", " ", "c", "o", "n", "n", "e",
             "c", "t">>,
           <<"N", "o", "d", "e", "(", "1", ")", " ", "a", "l", "r", "e", "a", "d", "y",
             " ", "e", "x", "i", "s", "t", "s", " ", "w", "i", "t", "h", " ", "l", "a",
             "b", "e", "l", " ", "U", "s", "e", "r">> }

InitFilter ==
    /\ filterIn \in Messages
    /\ filterOut = NoValue
    \* the other parts are at rest
    /\ cleanIn = [data |-> EmptyArray, arrayKey |-> "friends", checkKey |-> "name"]
    /\ cleanOut = Null
    /\ config = [verifyConnectionTimeout |-> <<>>]
    /\ now = 0
    /\ timerOn = FALSE
    /\ nextTick = 0
    /\ timeoutOn = FALSE
    /\ deadlineAt = TimeoutEach
    /\ attempts = <<>>
    /\ reason = <<>>
    /\ subject = "open"
    /\ outcome = "pending"
    /\ handle = 0
    /\ error = <<0>>
    /\ settledAt = -1
    /\ emitted = 0
    /\ logs = [log |-> 0, warn |-> 0, error |-> 0]
    /\ normIn = Null
    /\ normOut = Null
    /\ svcConfig = [database |-> <<"neo4j">>]
    /\ call = [c \in {1, 2} |-> IdleCall]
    /\ sessions = [c \in {1, 2} |-> NoSession]
    /\ tx = [c \in {1, 2} |-> NoTx]
    /\ db = {}
    /\ heap = [r \in {1} |-> [maxConnectionPoolSize |-> 100]]
    /\ supplied = [database |-> <<"neo4j">>, options |-> <<>>]
    /\ copies = <<>>
    /\ shutdownCalls = 0
    /\ closeCalls = 0

\* Neo4jErrorFilter.catch(exception, host) as one call
FilterCatch ==
    /\ filterOut = NoValue
    /\ filterOut' = Catch(filterIn)
    /\ UNCHANGED filterIn
    /\ UNCHANGED <<bootVars, normVars, svcVars, lifeVars, cleanVars>>

NextFilter == FilterCatch

SpecFilter == InitFilter /\ [][NextFilter]_vars

-----------------------------------------------------------------------------
(* The specifications                                                      *)

\* The state when createDriver has returned its promise: the interval is
\* scheduled with delay 0, the timeout is armed, nothing has run yet.
InitBoot ==
    /\ config \in [verifyConnectionTimeout : TimeoutChoices]
    /\ now = 0
    /\ timerOn = TRUE
    /\ nextTick = 0
    /\ timeoutOn = TRUE
    /\ deadlineAt = TimeoutEach
    /\ attempts = <<>>
    /\ reason = <<>>
    /\ subject = "open"
    /\ outcome = "pending"
    /\ handle = 0
    /\ error = <<0>>
    /\ settledAt = -1
    /\ emitted = 0
    /\ logs = [log |-> 0, warn |-> 0, error |-> 0]
    \* the other parts are at rest
    /\ normIn = Null
    /\ normOut = Null
    /\ svcConfig = [database |-> <<"neo4j">>]
    /\ call = [c \in {1, 2} |-> IdleCall]
    /\ sessions = [c \in {1, 2} |-> NoSession]
    /\ tx = [c \in {1, 2} |-> NoTx]
    /\ db = {}
    /\ heap = [r \in {1} |-> [maxConnectionPoolSize |-> 100]]
    /\ supplied = [database |-> <<"neo4j">>, options |-> <<>>]
    /\ copies = <<>>
    /\ shutdownCalls = 0
    /\ closeCalls = 0
    /\ cleanIn = [data |-> EmptyArray, arrayKey |-> "friends", checkKey |-> "name"]
    /\ cleanOut = Null
    /\ filterIn = <<>>
    /\ filterOut = Null

NextNorm == Extract

SpecBoot == InitBoot /\ [][NextBoot]_vars

SpecSvc == InitSvc /\ [][NextSvc]_vars

SpecNorm == InitNorm /\ [][NextNorm]_vars

-----------------------------------------------------------------------------
(* The claims about createDriver (SpecBoot)                                *)

EveryAttemptFailed == \A i \in 1..Len(attempts) : attempts[i].status = "failed"

\* C1: createDriver honours the configured deadline. With T the configured
\* verifyConnectionTimeout (60000 when unset) and every attempt failing, the
\* promise rejects exactly at T: it has not resolved, a rejection carries the
\* time T, and no timer event later than T finds it still pending.
C1_DeadlineHonoured ==
    EveryAttemptFailed =>
        /\ outcome # "resolved"
        /\ outcome = "rejected" => settledAt = ConfiguredDeadline(config)
        /\ now > ConfiguredDeadline(config) => outcome = "rejected"

\* Attempt i is the first to succeed: every earlier attempt failed and its
\* own verification resolved before the configured deadline.
FirstSuccessBeforeDeadline(i) ==
    /\ attempts[i].status = "ok"
    /\ \A j \in 1..(i - 1) : attempts[j].status = "failed"
    /\ attempts[i].verifiedAt < ConfiguredDeadline(config)

\* C2: attempts start at 0, 5000, 10000, ... ms; when the first k attempts
\* fail and attempt k+1 succeeds before the deadline, the promise resolves
\* with the handle of attempt k+1 and no attempt starts after that success.
C2_FirstSuccessResolves ==
    /\ \A i \in 1..Len(attempts) : attempts[i].startedAt = (i - 1) * RetryPeriod
    /\ \A i \in 1..Len(attempts) :
          FirstSuccessBeforeDeadline(i) =>
              /\ outcome = "resolved"
              /\ handle = i
              /\ \A j \in 1..Len(attempts) : attempts[j].startedAt <= attempts[i].verifiedAt

\* C3: once the promise has resolved or rejected, no further attempt is
\* started, driver$ emits nothing more and no failure is logged any more.
C3_NothingAfterSettled ==
    [][outcome # "pending" =>
          /\ Len(attempts') = Len(attempts)
          /\ emitted' = emitted
          /\ logs'.error = logs.error]_vars

\* C15: the promise of createDriver settles once. After it has resolved or
\* rejected, its state, its handle and its error never change, whatever the
\* interval, the pending verifications and the timeout do afterwards; a
\* resolved promise holds a handle and no error, a rejected one no handle.
C15_SettledOnce ==
    [][/\ outcome # "pending" => UNCHANGED <<outcome, handle, error, settledAt>>
       /\ outcome' = "resolved" => handle' \in 1..Len(attempts') /\ error' = <<0>>
       /\ outcome' = "rejected" => handle' = 0]_vars

\* The promise rejected at the deadline, and a verification that was pending
\* then has succeeded since: the promise is still rejected, without handle.
C15_Witness ==
    /\ outcome = "rejected"
    /\ handle = 0
    /\ \E i \in 1..Len(attempts) :
          /\ attempts[i].status = "ok"
          /\ attempts[i].startedAt < settledAt
          /\ attempts[i].verifiedAt >= settledAt

\* C16: when createDriver fails by timeout, the error it rejects with is the
\* error of an attempt that failed: it is never absent (undefined).
C16_TimeoutErrorIsLastFailure ==
    outcome = "rejected" =>
        /\ error # <<>>
        /\ error[1] \in 1..Len(attempts)
        /\ attempts[error[1]].status = "failed"

\* The attempts whose driver is open: built and not closed.
OpenHandles == {i \in 1..Len(attempts) : ~attempts[i].closed}

\* C19: createDriver leaks no handle. Once the promise has settled, the driver
\* of every attempt whose verification failed is closed; the only driver
\* left open by a finished attempt is the one the promise resolved with.
C19_NoHandleLeaked ==
    outcome # "pending" =>
        \A i \in OpenHandles : attempts[i].status \in {"failed", "ok"} => i = handle

\* The verifications in flight: started and not resolved.
InFlightVerifications == Pending \cup Hung

\* C20: at most one verification is in flight at any moment, and at most one
\* attempt succeeds.
C20_OneVerificationInFlight ==
    /\ Cardinality(InFlightVerifications) <= 1
    /\ Cardinality({i \in 1..Len(attempts) : attempts[i].status = "ok"}) <= 1

-----------------------------------------------------------------------------
(* The claims about Neo4jService (SpecSvc)                                 *)

Done(c) == call[c].pc = "done"
IsMulti(c) == call[c].op \in MultiOps
IsSingle(c) == call[c].op \in SingleOps

\* The statements of caller c whose effect the database retains.
Retained(c) == {k \in 1..MaxStatements : <<c, k>> \in db}

RolledBackOnly(c) ==
    /\ tx[c].state = "rolledback"
    /\ tx[c].rollbacks = 1
    /\ Retained(c) = {}

\* C4 as amended: a multi-statement call is atomic. Commit is called at most
\* once and the database retains all of the call's effects or none. When it
\* is over: a statement raised => never committed, rolled back once, nothing
\* retained; no statement raised and commit resolved => committed once, all
\* effects retained, no rollback; no statement raised and commit itself
\* raised => commit called once, rolled back once, nothing retained.
C4_AtomicTransaction ==
    \A c \in Calls : IsMulti(c) =>
        /\ tx[c].commits <= 1
        /\ Retained(c) \in {{}, 1..call[c].n}
        /\ Retained(c) # {} => tx[c].state = "committed"
        /\ Done(c) =>
            /\ call[c].raised # <<>> => tx[c].commits = 0 /\ RolledBackOnly(c)
            /\ call[c].raised = <<>> /\ call[c].commitRaised = <<>> =>
                  /\ tx[c].commits = 1
                  /\ tx[c].rollbacks = 0
                  /\ tx[c].state = "committed"
                  /\ Retained(c) = 1..call[c].n
            /\ call[c].raised = <<>> /\ call[c].commitRaised # <<>> =>
                  tx[c].commits = 1 /\ RolledBackOnly(c)

\* C4 as claimed: a statement raised => rolled back, never committed, nothing
\* retained; no statement raised => committed exactly once with the effects
\* of all statements.
C4_AtomicAsClaimed ==
    \A c \in Calls : IsMulti(c) /\ Done(c) =>
        /\ call[c].raised # <<>> => tx[c].commits = 0 /\ RolledBackOnly(c)
        /\ call[c].raised = <<>> =>
              /\ tx[c].commits = 1
              /\ tx[c].state = "committed"
              /\ Retained(c) = 1..call[c].n

\* One caller's second statement raised after its first had run and the call
\* is over; the other caller's commit raised and that call is over too.
C4_Witness ==
    /\ IsMulti(1) /\ Done(1) /\ call[1].n = 2
    /\ Len(call[1].results) = 1 /\ call[1].raised # <<>>
    /\ tx[1].rollbacks = 1
    /\ IsMulti(2) /\ Done(2) /\ call[2].n = 2
    /\ call[2].commitRaised # <<>>

\* C5: when a statement of a multi-statement call raises E, at whatever
\* position, the call fails with exactly E, and the caller sees a failure
\* only once the rollback has been performed.
C5_StatementErrorPropagated ==
    \A c \in Calls : IsMulti(c) =>
        /\ Done(c) /\ call[c].raised # <<>> =>
              /\ call[c].ret = [kind |-> "throw", err |-> call[c].raised[1]]
              /\ tx[c].rollbacks = 1
        /\ call[c].ret.kind = "throw" => tx[c].state = "rolledback"

\* multipleStatements([A, B]) is over, A had run and B raised
\* ConstraintValidationFailed, which is what the caller got.
C5_Witness ==
    /\ call[1].op = "multipleStatements" /\ Done(1) /\ call[1].n = 2
    /\ Len(call[1].results) = 1
    /\ call[1].raised = <<"ConstraintValidationFailed">>
    /\ call[1].ret = [kind |-> "throw", err |-> "ConstraintValidationFailed"]

InFlight(c) == call[c].pc \in {"exec", "run", "commit", "rollback"}

\* C6: every session is released exactly once on every exit path: close is
\* never called twice, a call in progress holds its session open, and a call
\* that is over has had its one session closed by exactly one close.
C6_SessionReleasedOnce ==
    \A c \in Calls :
        /\ sessions[c].closeCalls <= 1
        /\ InFlight(c) => sessions[c].open /\ sessions[c].closeCalls = 0
        /\ Done(c) =>
              /\ sessions[c].mode \in {"READ", "WRITE"}
              /\ ~sessions[c].open
              /\ sessions[c].closeCalls = 1

\* Both calls are over: a read that the driver failed, and a multi-statement
\* call that was rolled back in the middle.
C6_Witness ==
    /\ Done(1) /\ call[1].op = "readRaw" /\ call[1].ret.kind = "throw"
    /\ Done(2) /\ IsMulti(2) /\ call[2].raised # <<>> /\ Len(call[2].results) = 1
    /\ \A c \in Calls : ~sessions[c].open /\ sessions[c].closeCalls = 1

\* C7: read, readRaw, write and writeRaw never swallow a query error: when the
\* driver raised E the call fails with E and never returns a value, and the
\* caller sees the failure only once the session has been closed.
C7_QueryErrorRethrown ==
    \A c \in Calls : IsSingle(c) =>
        /\ Done(c) /\ call[c].raised # <<>> =>
              call[c].ret = [kind |-> "throw", err |-> call[c].raised[1]]
        /\ call[c].raised # <<>> => call[c].ret.kind # "value"
        /\ call[c].ret.kind = "throw" =>
              ~sessions[c].open /\ sessions[c].closeCalls = 1

\* A read and a write are over, each failed by the driver with its own error.
C7_Witness ==
    /\ call[1].op = "read" /\ Done(1)
    /\ call[1].ret = [kind |-> "throw", err |-> "ServiceUnavailable"]
    /\ call[2].op = "write" /\ Done(2)
    /\ call[2].ret = [kind |-> "throw", err |-> "ConstraintValidationFailed"]
    /\ <<2, 1>> \notin db

-----------------------------------------------------------------------------
(* The claims about extractRecords (SpecNorm)                              *)

\* extractRecords has returned a list for a list of records.
ExtractedList ==
    /\ normOut # NoValue
    /\ normIn.t = "array"
    /\ \A n \in 1..Len(normIn.items) : normIn.items[n].t = "Record"

SridIs(p, n) == p.srid = Int64(0, n) \/ p.srid = SmallNum(n)

\* What the claim says a point becomes.
PointBySrid(p) ==
    IF SridIs(p, Srid4326) THEN Obj([longitude |-> p.y, latitude |-> p.x])
    ELSE IF SridIs(p, Srid4979) THEN Obj([longitude |-> p.y, latitude |-> p.x, height |-> p.z])
    ELSE ConvertValues(Obj([x |-> p.x, y |-> p.y, z |-> p.z]))

RECURSIVE PointsBySrid(_, _)
\* Every point inside the value in has become PointBySrid of it in out.
PointsBySrid(in, out) ==
    IF in.t = "Point" THEN out = PointBySrid(in)
    ELSE IF in.t = "array"
    THEN /\ out.t = "array"
         /\ Len(out.items) = Len(in.items)
         /\ \A n \in 1..Len(in.items) : PointsBySrid(in.items[n], out.items[n])
    ELSE IF in.t = "object"
    THEN /\ out.t = "object"
         /\ DOMAIN out.fields = DOMAIN in.fields
         /\ \A k \in DOMAIN in.fields : PointsBySrid(in.fields[k], out.fields[k])
    ELSE IF in.t = "Node"
    THEN /\ out.t = "object"
         /\ DOMAIN out.fields = DOMAIN in.properties
         /\ \A k \in DOMAIN in.properties : PointsBySrid(in.properties[k], out.fields[k])
    ELSE TRUE

\* C8: extractRecords normalizes every spatial point by its SRID: 4326 yields
\* {longitude: y, latitude: x}, 4979 adds height: z, any other SRID yields the
\* normalization of the plain object {x, y, z}.
C8_PointsBySrid ==
    ExtractedList =>
        \A n \in 1..Len(normIn.items) :
            /\ normOut.t = "array"
            /\ \A m \in 1..Len(normIn.items[n].keys) :
                  PointsBySrid(normIn.items[n].values[m],
                               normOut.items[n].fields[normIn.items[n].keys[m]])

\* The magnitude a is at most the magnitude b, limb by limb from the top.
RECURSIVE MagLessOrEqual(_, _, _)
MagLessOrEqual(a, b, k) ==
    IF k = 0 THEN TRUE
    ELSE IF a[k] # b[k] THEN a[k] < b[k]
    ELSE MagLessOrEqual(a, b, k - 1)

\* |value| <= 2^53 - 1: the safe-integer range.
SafeInteger(i) == MagLessOrEqual(Magnitude(i), <<2^16 - 1, 2^16 - 1, 2^16 - 1, 2^5 - 1>>, 4)

DigitOf(ch) == CHOOSE d \in 0..9 : DigitChar[d + 1] = ch

RECURSIVE MulAdd(_, _, _, _)
\* The limbs m times f plus c, from limb k on.
MulAdd(m, f, k, c) ==
    IF k > Len(m) THEN m
    ELSE MulAdd([m EXCEPT ![k] = (m[k] * f + c) % Limb], f, k + 1, (m[k] * f + c) \div Limb)

RECURSIVE ParseDigits(_, _)
\* The magnitude a sequence of decimal digits denotes, after the magnitude m.
ParseDigits(cs, m) ==
    IF cs = <<>> THEN m
    ELSE ParseDigits(Tail(cs), MulAdd(m, 10, 1, DigitOf(Head(cs))))

IsDigits(cs) == cs # <<>> /\ \A n \in 1..Len(cs) : \E d \in 1..10 : DigitChar[d] = cs[n]

\* The string cs is exactly the decimal representation of the Integer i: an
\* optional sign, digits with no leading zero, denoting i's value.
ExactDecimal(cs, i) ==
    LET neg == cs # <<>> /\ Head(cs) = "-"
        ds == IF neg THEN Tail(cs) ELSE cs
    IN  /\ IsDigits(ds)
        /\ Len(ds) > 1 => Head(ds) # "0"
        /\ neg = IsNegative(i)
        /\ ParseDigits(ds, <<0, 0, 0, 0>>) = Magnitude(i)

\* What the claim says of a driver Integer and its conversion.
IntegerConverted(i, out) ==
    IF SafeInteger(i)
    THEN /\ out.t = "number"
         /\ ~out.nan
         /\ out.mag = Magnitude(i)
         /\ out.neg = IsNegative(i)
    ELSE /\ out.t = "string"
         /\ ExactDecimal(out.chars, i)

RECURSIVE IntegersConverted(_, _)
\* Every driver Integer inside the value in, through arrays, objects and node
\* properties, has become IntegerConverted of it in out.
IntegersConverted(in, out) ==
    IF in.t = "Integer" THEN IntegerConverted(in, out)
    ELSE IF in.t = "array"
    THEN /\ out.t = "array"
         /\ Len(out.items) = Len(in.items)
         /\ \A n \in 1..Len(in.items) : IntegersConverted(in.items[n], out.items[n])
    ELSE IF in.t = "object"
    THEN /\ out.t = "object"
         /\ DOMAIN out.fields = DOMAIN in.fields
         /\ \A k \in DOMAIN in.fields : IntegersConverted(in.fields[k], out.fields[k])
    ELSE IF in.t = "Node"
    THEN /\ out.t = "object"
         /\ DOMAIN out.fields = DOMAIN in.properties
         /\ \A k \in DOMAIN in.properties : IntegersConverted(in.properties[k], out.fields[k])
    ELSE TRUE

\* C9: extractRecords converts every driver integer, at any nesting depth
\* inside arrays, objects and node properties: within the safe-integer range
\* to the native number equal to it, otherwise to its exact decimal string.
C9_IntegersConverted ==
    ExtractedList =>
        /\ normOut.t = "array"
        /\ Len(normOut.items) = Len(normIn.items)
        /\ \A n \in 1..Len(normIn.items) :
              \A m \in 1..Len(normIn.items[n].keys) :
                  IntegersConverted(normIn.items[n].values[m],
                                    normOut.items[n].fields[normIn.items[n].keys[m]])

\* -2^53, just outside the safe range, two levels down inside a node's
\* property, has come out as the string "-9007199254740992".
C9_Witness ==
    /\ normIn = Arr(<<Record(<<"n">>,
                   <<Node(Int64(0, 1), <<"Person">>, [p |-> Arr(<<Int64(-(2^21), 0)>>)])>>)>>)
    /\ normOut = Arr(<<Obj([n |-> Obj([p |-> Arr(<<Str(
                   <<"-", "9", "0", "0", "7", "1", "9", "9", "2", "5", "4",
                     "7", "4", "0", "9", "9", "2">>)>>)])])>>)

\* The values JavaScript takes for false.
FalsyValues == {Null, Undefined, Bool(FALSE), SmallNum(0), NaN, Str(<<>>)}

\* C10 as amended: extractRecords returns an empty list for every falsy
\* argument (null, undefined, false, 0, NaN, the empty string) and returns
\* the argument itself for every other argument that is not an array.
C10_FalsyOrPassthrough ==
    normOut # NoValue =>
        /\ normIn \in FalsyValues => normOut = EmptyArray
        /\ normIn.t # "array" /\ normIn \notin FalsyValues => normOut = normIn

\* C10 as claimed: an empty list for null and undefined, the argument itself
\* for every other argument that is not an array.
C10_PassthroughAsClaimed ==
    normOut # NoValue =>
        /\ normIn \in {Null, Undefined} => normOut = EmptyArray
        /\ normIn.t # "array" /\ normIn \notin {Null, Undefined} => normOut = normIn

\* extractRecords was given the number 0 and returned an empty list.
C10_Witness == normIn = SmallNum(0) /\ normOut = EmptyArray

RECURSIVE ListedKinds(_)
\* The value is built from the kinds the claim lists: null, driver integers,
\* temporal values, points, nodes, arrays and plain objects, over strings,
\* booleans and numbers.
ListedKinds(v) ==
    IF v.t \in {"null", "Integer", "Point", "string", "boolean", "number"} THEN TRUE
    ELSE IF v.t \in TemporalKinds THEN TRUE
    ELSE IF v.t = "array" THEN \A n \in 1..Len(v.items) : ListedKinds(v.items[n])
    ELSE IF v.t = "object" THEN \A k \in DOMAIN v.fields : ListedKinds(v.fields[k])
    ELSE IF v.t = "Node" THEN \A k \in DOMAIN v.properties : ListedKinds(v.properties[k])
    ELSE FALSE

RECURSIVE IsPlain(_)
\* A number, a string, a boolean, null, or an array or a mapping of such.
IsPlain(v) ==
    IF v.t \in {"null", "string", "boolean", "number"} THEN TRUE
    ELSE IF v.t = "array" THEN \A n \in 1..Len(v.items) : IsPlain(v.items[n])
    ELSE IF v.t = "object" THEN \A k \in DOMAIN v.fields : IsPlain(v.fields[k])
    ELSE FALSE

RECURSIVE Depth(_)
\* The number of arrays, objects and nodes around the innermost value.
Depth(v) ==
    IF v.t = "array" /\ v.items # <<>> THEN 1 + Depth(v.items[Len(v.items)])
    ELSE IF v.t = "object" THEN 1 + Depth(v.fields[CHOOSE k \in DOMAIN v.fields : TRUE])
    ELSE IF v.t = "Node" THEN 1 + Depth(v.properties[CHOOSE k \in DOMAIN v.properties : TRUE])
    ELSE 0

\* C17: normalization is total. For every list of records whose values are
\* built from null, integers, temporal values, points, nodes, arrays and
\* plain objects, nested to any depth, the list extractRecords returns holds
\* no driver value at any depth; a node has become its property mapping.
C17_NormalizationTotal ==
    (ExtractedList /\ \A n \in 1..Len(normIn.items) :
                         \A m \in 1..Len(normIn.items[n].values) :
                             ListedKinds(normIn.items[n].values[m]))
        => IsPlain(normOut)

\* A record whose value is a node that holds a driver value under five
\* levels of arrays, objects and nodes has come out plain, five levels deep.
C17_Witness ==
    /\ ExtractedList
    /\ Len(normIn.items) = 1
    /\ Depth(normIn.items[1].values[1]) >= 5
    /\ normIn.items[1].values[1].t = "Node"
    /\ ListedKinds(normIn.items[1].values[1])
    /\ IsPlain(normOut)
    /\ Depth(normOut.items[1].fields.n) >= 5

-----------------------------------------------------------------------------
(* The claims about removeEmptyArrays (SpecClean)                          *)

\* removeEmptyArrays has returned its list.
Cleaned == cleanOut # NoValue /\ cleanOut # TypeError

\* The artifact: record[arrayKey] is a non-empty array whose first element's
\* checkKey field is exactly null.
IsArtifact(record, arrayKey, checkKey) ==
    /\ record.t = "object"
    /\ arrayKey \in DOMAIN record.fields
    /\ record.fields[arrayKey].t = "array"
    /\ record.fields[arrayKey].items # <<>>
    /\ record.fields[arrayKey].items[1].t = "object"
    /\ checkKey \in DOMAIN record.fields[arrayKey].items[1].fields
    /\ record.fields[arrayKey].items[1].fields[checkKey] = Null

RECURSIVE ArtifactAmongElements(_, _, _)
\* An element of the list holds the artifact, or an element of an array held
\* by an element of the list does, and so on: the elements of the list, and
\* the elements of each array that is a field (or an element) of such an
\* element.
ArtifactAmongElements(list, arrayKey, checkKey) ==
    \E n \in 1..Len(list.items) :
        LET e == list.items[n]
        IN  \/ IsArtifact(e, arrayKey, checkKey)
            \/ /\ e.t = "object"
               /\ \E k \in DOMAIN e.fields :
                     /\ e.fields[k].t = "array"
                     /\ ArtifactAmongElements(e.fields[k], arrayKey, checkKey)
            \/ /\ e.t = "array"
               /\ \E m \in 1..Len(e.items) :
                     /\ e.items[m].t = "array"
                     /\ ArtifactAmongElements(e.items[m], arrayKey, checkKey)

RECURSIVE ArtifactAnywhere(_, _, _)
\* An object inside the value, reached through arrays or through
\* object-valued fields, holds the artifact.
ArtifactAnywhere(value, arrayKey, checkKey) ==
    \/ IsArtifact(value, arrayKey, checkKey)
    \/ /\ value.t = "object"
       /\ \E k \in DOMAIN value.fields : ArtifactAnywhere(value.fields[k], arrayKey, checkKey)
    \/ /\ value.t = "array"
       /\ \E n \in 1..Len(value.items) : ArtifactAnywhere(value.items[n], arrayKey, checkKey)

\* The records before and after, side by side.
SameShape ==
    /\ cleanOut.t = "array"
    /\ Len(cleanOut.items) = Len(cleanIn.data.items)
    /\ \A i \in 1..Len(cleanOut.items) :
          /\ cleanOut.items[i].t = cleanIn.data.items[i].t
          /\ cleanIn.data.items[i].t = "object" =>
                DOMAIN cleanOut.items[i].fields = DOMAIN cleanIn.data.items[i].fields

\* C11 as amended: removeEmptyArrays returns the same number of records in
\* the same order, each with its keys. record[arrayKey] has become an empty
\* array for exactly the records that held the artifact. Every other field
\* that holds an array holds the result of the same collapse on that array,
\* every field that holds no array is unchanged, and a list with no artifact
\* among its elements and the elements of their arrays is returned unchanged.
C11_CollapseAndRecurse ==
    Cleaned =>
        /\ SameShape
        /\ \A i \in 1..Len(cleanIn.data.items) :
              LET r == cleanIn.data.items[i]
                  o == cleanOut.items[i]
              IN  IF r.t # "object" THEN r.t # "array" => o = r
                  ELSE \A k \in DOMAIN r.fields :
                         IF k = cleanIn.arrayKey /\ IsArtifact(r, cleanIn.arrayKey, cleanIn.checkKey)
                         THEN o.fields[k] = EmptyArray
                         ELSE /\ o.fields[k] = EmptyArray => r.fields[k] = EmptyArray
                              /\ r.fields[k].t # "array" => o.fields[k] = r.fields[k]
                              /\ r.fields[k].t = "array" =>
                                    o.fields[k] = RemoveEmptyArrays(r.fields[k],
                                                     cleanIn.arrayKey, cleanIn.checkKey)
        /\ ~ArtifactAmongElements(cleanIn.data, cleanIn.arrayKey, cleanIn.checkKey)
              => cleanOut = cleanIn.data

\* C11 as claimed: record[arrayKey] becomes an empty array for exactly the
\* records that hold the artifact, and every other record is returned
\* unchanged, in the same order.
C11_OthersUnchanged ==
    Cleaned =>
        /\ SameShape
        /\ \A i \in 1..Len(cleanIn.data.items) :
              IF IsArtifact(cleanIn.data.items[i], cleanIn.arrayKey, cleanIn.checkKey)
              THEN cleanOut.items[i].fields[cleanIn.arrayKey] = EmptyArray
              ELSE cleanOut.items[i] = cleanIn.data.items[i]

\* Of two records the first held [{name: null, address: null}] under
\* `friends` and the second [{name: 'Bob'}]: the first has come out with an
\* empty array, the second as it was.
C11_Witness ==
    /\ cleanIn = [data |-> Arr(<<Obj([friends |-> Arr(<<Obj([name |-> Null, address |-> Null])>>)]),
                                 Obj([friends |-> Arr(<<Obj([name |-> Bob])>>)])>>),
                  arrayKey |-> "friends", checkKey |-> "name"]
    /\ cleanOut = Arr(<<Obj([friends |-> EmptyArray]),
                        Obj([friends |-> Arr(<<Obj([name |-> Bob])>>)])>>)

\* C18 as amended: after removeEmptyArrays has returned, no element of the
\* list holds the artifact, and no element of an array held by such an
\* element does, and so on. (Objects held in object-valued fields are not
\* looked into.)
C18_NoArtifactAmongElements ==
    Cleaned => ~ArtifactAmongElements(cleanOut, cleanIn.arrayKey, cleanIn.checkKey)

\* C18 as claimed: after removeEmptyArrays has returned, no object inside the
\* list, reached through arrays or object-valued fields, holds the artifact.
C18_NoArtifactAnywhere ==
    Cleaned => ~ArtifactAnywhere(cleanOut, cleanIn.arrayKey, cleanIn.checkKey)

\* The list held the artifact in a record of an array of its record, not in
\* the record itself, and has come out without any.
C18_Witness ==
    /\ Cleaned
    /\ ArtifactAmongElements(cleanIn.data, cleanIn.arrayKey, cleanIn.checkKey)
    /\ \A i \in 1..Len(cleanIn.data.items) :
          ~IsArtifact(cleanIn.data.items[i], cleanIn.arrayKey, cleanIn.checkKey)
    /\ ~ArtifactAnywhere(cleanOut, cleanIn.arrayKey, cleanIn.checkKey)

\* C21: removeEmptyArrays raises nothing and returns its list for every list
\* of records (mappings), whatever their array fields hold: null elements,
\* scalars, nested arrays, or null as the first element under arrayKey.
C21_NeverRaises ==
    (cleanOut # NoValue /\ \A i \in 1..Len(cleanIn.data.items) :
                              cleanIn.data.items[i].t = "object")
        => cleanOut # TypeError /\ cleanOut.t = "array"

-----------------------------------------------------------------------------
(* The claims about Neo4jErrorFilter (SpecFilter)                          *)

\* The message matches one of the two constraint-violation patterns.
ConstraintViolation(message) ==
    Includes(message, AlreadyExistsWith) \/ Includes(message, MustHaveTheProperty)

\* C14: for every error whose message matches one of the two patterns the
\* filter sends, without raising, the response {statusCode: 400, message:
\* [one string], error: 'Bad Request'}, the string being built from an
\* identifier the message holds between backticks.
C14_ConstraintViolationMapped ==
    (filterOut # NoValue /\ ConstraintViolation(filterIn)) =>
        /\ filterOut.t = "response"
        /\ filterOut.statusCode = BAD_REQUEST
        /\ filterOut.error = "Bad Request"
        /\ Len(filterOut.message) = 1
        /\ \E p \in 1..Len(filterIn), q \in 1..Len(filterIn) :
              /\ p + 1 < q
              /\ filterIn[p] = Backtick
              /\ filterIn[q] = Backtick
              /\ \/ filterOut.message[1] = SubSeq(filterIn, p + 1, q - 1) \o AlreadyTaken
                 \/ filterOut.message[1] = SubSeq(filterIn, p + 1, q - 1) \o ShouldNotBeEmpty

-----------------------------------------------------------------------------
(* The claims about the configuration and the shutdown hook                *)

\* C12: the stored configuration is immutable. Whatever is done with the
\* objects getConfig returned, the stored configuration followed by value is
\* the one supplied at construction, so a later getConfig returns it, and a
\* session acquired without a database name is on the supplied database.
C12_ConfigImmutable ==
    /\ ConfigValue(svcConfig) = supplied
    /\ \A c \in Calls :
          sessions[c] # NoSession =>
              sessions[c].database \in {supplied.database, <<"movies">>}

\* C13 as amended: every invocation of the shutdown hook invokes the driver's
\* close exactly once and nothing else invokes it: close has been invoked as
\* many times as the hook, whatever the service operations in between.
C13_CloseOncePerShutdown == closeCalls = shutdownCalls

\* C13 as claimed: close is invoked at most once, and once after a shutdown.
C13_ClosedExactlyOnce ==
    /\ closeCalls <= 1
    /\ shutdownCalls >= 1 => closeCalls = 1

\* The hook has run once after a caller's operation finished: one close.
C13_Witness ==
    /\ shutdownCalls = 1
    /\ closeCalls = 1
    /\ \E c \in Calls : Done(c)

=============================================================================
